---- MODULE Spec2Model ----
(***************************************************************************)
(* Model of simpleplex/model/podcasts.py: the podcasts table, the Podcast  *)
(* mapped class with its slug validator, the author composite, the         *)
(* explicit tri-state column, the insert/update timestamp defaults and the *)
(* two deferred episode counters over the media table.                     *)
(*                                                                         *)
(* Strings are sequences of one-character strings.  Columns that no        *)
(* property reads (title, subtitle, description, category, copyright,      *)
(* itunes_url, feedburner_url) are not represented.                        *)
(***************************************************************************)
EXTENDS Integers, Sequences, FiniteSets, TLC

VARIABLES
    podcasts,   \* committed rows of the podcasts table; the row id is the index
    clock,      \* last value datetime.now returned
    session,    \* per session: <<>> or <<the Podcast instance of its unit of work>>
    err,        \* outcome of the last operation: "none" or "IntegrityError"
    media,      \* committed rows of the media table, keyed by id
    stale,      \* history, per session: a media row was written since a counter of its instance was computed
    lastInput   \* history: the raw string of the last slug assignment

vars == <<podcasts, clock, session, err, media, stale, lastInput>>

----------------------------------------------------------------------------
(* Bounds *)

MaxInputLen == 3      \* longest short slug input
MaxPodcasts == 2      \* rows the podcasts table may hold
MaxClock == 2         \* largest timestamp
MaxMedia == 2         \* rows the media table may hold

(* Program constants *)

SlugMaxLen == 50      \* Column('slug', String(50))

Sessions == {"s1", "s2"}

----------------------------------------------------------------------------
(* Slug normalizer: simpleplex.model.slugify *)

Chars == {"b", "B", " ", "-"}

Lower(c) == IF c = "B" THEN "b" ELSE c

IsAlnum(c) == c \in {"b", "B"}

Min(a, b) == IF a < b THEN a ELSE b

\* one pass, left to right: every maximal run of non-alphanumerics becomes one "-"
RECURSIVE Collapse(_, _)
Collapse(s, inRun) ==
    IF s = <<>> THEN <<>>
    ELSE IF IsAlnum(Head(s)) THEN <<Head(s)>> \o Collapse(Tail(s), FALSE)
    ELSE IF inRun THEN Collapse(Tail(s), TRUE)
    ELSE <<"-">> \o Collapse(Tail(s), TRUE)

slugify(s) ==
    LET lowered == [i \in 1..Len(s) |-> Lower(s[i])]
        collapsed == Collapse(lowered, FALSE)
    IN  SubSeq(collapsed, 1, Min(Len(collapsed), SlugMaxLen))

\* faulty variant of validate_slug: the hook returns the raw input
validate_slug_raw(key, slug) == slug

\* @validates('slug') def validate_slug(self, key, slug): return slugify(slug)
validate_slug(key, slug) == slugify(slug)

----------------------------------------------------------------------------
(* Column types and defaults of the podcasts table *)

\* Python-side values of the explicit attribute and their stored encodings
PyBool == {"None", "True", "False"}

\* Column('explicit', Boolean, ...): the value bound into INSERT / UPDATE
BoolToDb(v) == IF v = "True" THEN "1" ELSE IF v = "False" THEN "0" ELSE "NULL"

\* Column('explicit', Boolean, ...): the value a fetched row yields
BoolFromDb(d) == IF d = "NULL" THEN "None" ELSE IF d = "0" THEN "False" ELSE "True"

\* faulty variant of ExplicitDefault: default=False
ExplicitDefaultFalse == "0"

\* Column('explicit', Boolean, default=None)
ExplicitDefault == "NULL"

\* faulty variant of SlugUnique: the column is not declared unique
SlugNotUnique(rows, id, slug) == TRUE

\* Column('slug', String(50), unique=True): no other row holds this slug
SlugUnique(rows, id, slug) ==
    \A j \in DOMAIN rows : j # id => rows[j].slug # slug

\* faulty variant of InsertDefaults: modified_on takes the first reading of the clock
InsertDefaultsSwapped(t1, t2) == [created_on |-> t2, modified_on |-> t1]

\* created_on default=datetime.now, modified_on default=datetime.now: the two
\* defaults are evaluated in column order, t1 first, then t2
InsertDefaults(t1, t2) == [created_on |-> t1, modified_on |-> t2]

\* faulty variant of OnUpdate: modified_on has no onupdate
OnUpdateMissing(row, t) == row

\* faulty variant of OnUpdate: created_on is refreshed on update as well
OnUpdateBoth(row, t) == [row EXCEPT !.created_on = t, !.modified_on = t]

\* modified_on onupdate=datetime.now; created_on has no onupdate
OnUpdate(row, t) == [row EXCEPT !.modified_on = t]

----------------------------------------------------------------------------
(* Author composite: simpleplex.model.Author over author_name, author_email *)

Author(name, email) == [name |-> name, email |-> email]

\* Author.__eq__: value equality on both fields
AuthorEq(a, b) == a.name = b.name /\ a.email = b.email

\* faulty variant of AuthorColumns: the two columns are listed in the other order
AuthorColumnsSwapped(a) == [author_name |-> a.email, author_email |-> a.name]

\* composite(Author, podcasts.c.author_name, podcasts.c.author_email), writing
AuthorColumns(a) == [author_name |-> a.name, author_email |-> a.email]

\* composite(Author, podcasts.c.author_name, podcasts.c.author_email), reading
AuthorOfRow(row) == Author(row.author_name, row.author_email)

----------------------------------------------------------------------------
(* Podcast instances in a session's unit of work *)

Has(s) == session[s] # <<>>
Obj(s) == session[s][1]

\* the column attributes of an instance, as the unit of work compares them
Attrs(o) == [slug |-> o.slug, author |-> o.author, explicit |-> o.explicit]

NewInstance(slug, author) ==
    [id |-> 0, slug |-> slug, author |-> author, explicit |-> "None",
     orig |-> <<>>, media_count |-> <<>>, published_media_count |-> <<>>]

\* an instance as a query yields it: column attributes from the row, the two
\* column_property counters deferred
InstanceOfRow(id) ==
    LET row == podcasts[id]
        o == [id |-> id, slug |-> row.slug, author |-> AuthorOfRow(row),
              explicit |-> BoolFromDb(row.explicit), orig |-> <<>>,
              media_count |-> <<>>, published_media_count |-> <<>>]
    IN  [o EXCEPT !.orig = <<Attrs(o)>>]

\* the row an INSERT of instance o writes
RowOfInsert(o, t1, t2) ==
    LET d == InsertDefaults(t1, t2)
        a == AuthorColumns(o.author)
    IN  [slug |-> o.slug, created_on |-> d.created_on, modified_on |-> d.modified_on,
         author_name |-> a.author_name, author_email |-> a.author_email,
         explicit |-> IF o.explicit = "None" THEN ExplicitDefault ELSE BoolToDb(o.explicit)]

\* the row an UPDATE of instance o leaves: only the changed attributes are set
RowOfUpdate(row, o, t) ==
    LET was == o.orig[1]
        a == AuthorColumns(o.author)
        r1 == IF o.slug # was.slug THEN [row EXCEPT !.slug = o.slug] ELSE row
        r2 == IF o.author # was.author
              THEN [r1 EXCEPT !.author_name = a.author_name, !.author_email = a.author_email]
              ELSE r1
        r3 == IF o.explicit # was.explicit
              THEN [r2 EXCEPT !.explicit = BoolToDb(o.explicit)] ELSE r2
    IN  OnUpdate(r3, t)

Dirty(o) == o.id = 0 \/ Attrs(o) # o.orig[1]

----------------------------------------------------------------------------
(* Operations on Podcasts *)

\* p = Podcast(); p.slug = input; p.author = Author(name, email); DBSession.add(p)
Create(s, input, name, email) ==
    /\ ~Has(s)
    /\ session' = [session EXCEPT
                     ![s] = <<NewInstance(validate_slug("slug", input), Author(name, email))>>]
    /\ stale' = [stale EXCEPT ![s] = FALSE]
    /\ err' = "none"
    /\ lastInput' = input
    /\ UNCHANGED <<podcasts, clock, media>>

\* p.slug = input
SetSlug(s, input) ==
    /\ Has(s)
    /\ session' = [session EXCEPT ![s][1].slug = validate_slug("slug", input)]
    /\ err' = "none"
    /\ lastInput' = input
    /\ UNCHANGED <<podcasts, clock, media, stale>>

\* p.slug = p.slug
ReassignSlug(s) ==
    /\ Has(s)
    /\ SetSlug(s, Obj(s).slug)

\* p.author = Author(name, email)
SetAuthor(s, name, email) ==
    /\ Has(s)
    /\ session' = [session EXCEPT ![s][1].author = Author(name, email)]
    /\ err' = "none"
    /\ UNCHANGED <<podcasts, clock, media, stale, lastInput>>

\* p.explicit = v
SetExplicit(s, v) ==
    /\ Has(s)
    /\ session' = [session EXCEPT ![s][1].explicit = v]
    /\ err' = "none"
    /\ UNCHANGED <<podcasts, clock, media, stale, lastInput>>

\* DBSession.commit() with a pending instance: INSERT
CommitInsert(s) ==
    /\ Has(s)
    /\ Obj(s).id = 0
    /\ IF ~SlugUnique(podcasts, 0, Obj(s).slug)
       THEN /\ err' = "IntegrityError"
            /\ session' = [session EXCEPT ![s] = <<>>]
            /\ UNCHANGED <<podcasts, clock>>
       ELSE /\ Len(podcasts) < MaxPodcasts
            /\ \E t1 \in clock..MaxClock : \E t2 \in t1..MaxClock :
                 /\ podcasts' = Append(podcasts, RowOfInsert(Obj(s), t1, t2))
                 /\ clock' = t2
            /\ session' = [session EXCEPT
                             ![s][1].id = Len(podcasts) + 1,
                             ![s][1].orig = <<Attrs(Obj(s))>>]
            /\ err' = "none"
    /\ UNCHANGED <<media, stale, lastInput>>

\* DBSession.commit() with a persistent instance: UPDATE when an attribute changed
CommitUpdate(s) ==
    /\ Has(s)
    /\ Obj(s).id # 0
    /\ IF ~Dirty(Obj(s))
       THEN /\ err' = "none"
            /\ UNCHANGED <<podcasts, clock, session>>
       ELSE IF Obj(s).slug # Obj(s).orig[1].slug
               /\ ~SlugUnique(podcasts, Obj(s).id, Obj(s).slug)
       THEN /\ err' = "IntegrityError"
            /\ session' = [session EXCEPT ![s] = <<>>]
            /\ UNCHANGED <<podcasts, clock>>
       ELSE /\ \E t \in clock..MaxClock :
                 /\ podcasts' = [podcasts EXCEPT
                                   ![Obj(s).id] = RowOfUpdate(podcasts[Obj(s).id], Obj(s), t)]
                 /\ clock' = t
            /\ session' = [session EXCEPT ![s][1].orig = <<Attrs(Obj(s))>>]
            /\ err' = "none"
    /\ UNCHANGED <<media, stale, lastInput>>

\* DBSession.query(Podcast).get(id)
Load(s, id) ==
    /\ ~Has(s)
    /\ id \in DOMAIN podcasts
    /\ session' = [session EXCEPT ![s] = <<InstanceOfRow(id)>>]
    /\ stale' = [stale EXCEPT ![s] = FALSE]
    /\ err' = "none"
    /\ UNCHANGED <<podcasts, clock, media, lastInput>>

\* the unit of work ends and its instance is dropped
Discard(s) ==
    /\ Has(s)
    /\ session' = [session EXCEPT ![s] = <<>>]
    /\ stale' = [stale EXCEPT ![s] = FALSE]
    /\ err' = "none"
    /\ UNCHANGED <<podcasts, clock, media, lastInput>>

----------------------------------------------------------------------------
(* Media status bitmask: simpleplex.model.media.MediaStatus *)

TRASH == 1
PUBLISH == 2
DRAFT == 4

Statuses == 0..(2 * DRAFT - 1)

\* the SQL operator & on non-negative integers
RECURSIVE BitAnd(_, _)
BitAnd(a, b) ==
    IF a = 0 \/ b = 0 THEN 0
    ELSE (a % 2) * (b % 2) + 2 * BitAnd(a \div 2, b \div 2)

----------------------------------------------------------------------------
(* The two counters: correlated count subqueries over the media table *)

\* faulty variant of media_count: the trash filter is missing
media_count_all(id) ==
    Cardinality({m \in DOMAIN media : media[m].podcast_id = id})

\* faulty variant of media_count: the status is compared with = instead of &
media_count_eq(id) ==
    Cardinality({m \in DOMAIN media :
                   /\ media[m].podcast_id = id
                   /\ media[m].status # TRASH})

\* select count(media.id) where media.podcast_id = podcasts.id
\*                          and media.status & trash = 0
media_count(id) ==
    Cardinality({m \in DOMAIN media :
                   /\ media[m].podcast_id = id
                   /\ BitAnd(media[m].status, TRASH) = 0})

\* faulty variant of published_media_count: the trash filter is missing
published_media_count_trash(id) ==
    Cardinality({m \in DOMAIN media :
                   /\ media[m].podcast_id = id
                   /\ BitAnd(media[m].status, PUBLISH) = PUBLISH})

\* select count(media.id) where media.podcast_id = podcasts.id
\*                          and media.status & publish = publish
\*                          and media.status & trash = 0
published_media_count(id) ==
    Cardinality({m \in DOMAIN media :
                   /\ media[m].podcast_id = id
                   /\ BitAnd(media[m].status, PUBLISH) = PUBLISH
                   /\ BitAnd(media[m].status, TRASH) = 0})

\* faulty variant of LoadDeferred: the attribute is queried on every access
LoadAlways(cur, fresh) == <<fresh>>

\* deferred=True: the subquery runs on the first access of the attribute and the
\* instance keeps its result
LoadDeferred(cur, fresh) == IF cur = <<>> THEN <<fresh>> ELSE cur

\* an instance holds a computed counter
Counted(s) ==
    Has(s) /\ (Obj(s).media_count # <<>> \/ Obj(s).published_media_count # <<>>)

\* p.media_count
AccessMediaCount(s) ==
    /\ Has(s)
    /\ Obj(s).id # 0
    /\ session' = [session EXCEPT
                     ![s][1].media_count =
                        LoadDeferred(Obj(s).media_count, media_count(Obj(s).id))]
    /\ err' = "none"
    /\ UNCHANGED <<podcasts, clock, media, stale, lastInput>>

\* p.published_media_count
AccessPublishedMediaCount(s) ==
    /\ Has(s)
    /\ Obj(s).id # 0
    /\ session' = [session EXCEPT
                     ![s][1].published_media_count =
                        LoadDeferred(Obj(s).published_media_count,
                                     published_media_count(Obj(s).id))]
    /\ err' = "none"
    /\ UNCHANGED <<podcasts, clock, media, stale, lastInput>>

----------------------------------------------------------------------------
(* Writes to the media table, committed by other units of work.            *)
(* podcast_id 0 stands for NULL: it equals no podcasts.id.                 *)

PodcastRefs == 0..Len(podcasts)

MarkStale == [s \in Sessions |-> stale[s] \/ Counted(s)]

InsertMedia(pid, st) ==
    /\ \E m \in 1..MaxMedia :
         /\ m \notin DOMAIN media
         /\ \A k \in 1..(m - 1) : k \in DOMAIN media
         /\ media' = (m :> [podcast_id |-> pid, status |-> st]) @@ media
    /\ stale' = MarkStale
    /\ err' = "none"
    /\ UNCHANGED <<podcasts, clock, session, lastInput>>

DeleteMedia(m) ==
    /\ m \in DOMAIN media
    /\ media' = [k \in DOMAIN media \ {m} |-> media[k]]
    /\ stale' = MarkStale
    /\ err' = "none"
    /\ UNCHANGED <<podcasts, clock, session, lastInput>>

SetMediaStatus(m, st) ==
    /\ m \in DOMAIN media
    /\ media[m].status # st
    /\ media' = [media EXCEPT ![m].status = st]
    /\ stale' = MarkStale
    /\ err' = "none"
    /\ UNCHANGED <<podcasts, clock, session, lastInput>>

SetMediaPodcast(m, pid) ==
    /\ m \in DOMAIN media
    /\ media[m].podcast_id # pid
    /\ media' = [media EXCEPT ![m].podcast_id = pid]
    /\ stale' = MarkStale
    /\ err' = "none"
    /\ UNCHANGED <<podcasts, clock, session, lastInput>>

----------------------------------------------------------------------------
(* Inputs *)

ShortInputs == UNION {[1..k -> Chars] : k \in 0..MaxInputLen}

\* inputs longer than the slug column
Pad == [i \in 1..(SlugMaxLen - 1) |-> "b"]
LongInputs == {Pad \o t : t \in ShortInputs}

SlugInputs == ShortInputs \cup LongInputs

\* three inputs, two of which normalize to the same slug
FewInputs == {<<"B", " ", "b">>, <<"b", "-", "b">>, <<"b">>}

Names == {"A", "B"}
Emails == {"a@x.com", "b@x.com"}

----------------------------------------------------------------------------
(* Specifications *)

Init ==
    /\ podcasts = <<>>
    /\ clock = 0
    /\ session = [s \in Sessions |-> <<>>]
    /\ err = "none"
    /\ media = <<>>
    /\ stale = [s \in Sessions |-> FALSE]
    /\ lastInput = <<>>

Next ==
    \/ \E s \in Sessions, i \in FewInputs : Create(s, i, "A", "a@x.com")
    \/ \E s \in Sessions, i \in FewInputs : SetSlug(s, i)
    \/ \E s \in Sessions : ReassignSlug(s)
    \/ \E s \in Sessions, n \in Names, e \in Emails : SetAuthor(s, n, e)
    \/ \E s \in Sessions, v \in PyBool : SetExplicit(s, v)
    \/ \E s \in Sessions : CommitInsert(s)
    \/ \E s \in Sessions : CommitUpdate(s)
    \/ \E s \in Sessions, id \in 1..MaxPodcasts : Load(s, id)
    \/ \E s \in Sessions : Discard(s)
    \/ \E s \in Sessions : AccessMediaCount(s)
    \/ \E s \in Sessions : AccessPublishedMediaCount(s)
    \/ \E pid \in PodcastRefs, st \in Statuses : InsertMedia(pid, st)
    \/ \E m \in 1..MaxMedia : DeleteMedia(m)
    \/ \E m \in 1..MaxMedia, st \in Statuses : SetMediaStatus(m, st)
    \/ \E m \in 1..MaxMedia, pid \in PodcastRefs : SetMediaPodcast(m, pid)

Spec == Init /\ [][Next]_vars

\* slug assignment alone, over every input
NextSlug ==
    \/ \E i \in SlugInputs : Create("s1", i, "A", "a@x.com")
    \/ \E i \in SlugInputs : SetSlug("s1", i)
    \/ ReassignSlug("s1")
    \/ Discard("s1")

SpecSlug == Init /\ [][NextSlug]_vars

\* sessions creating, re-slugging and committing Podcasts
NextPodcast ==
    \/ \E s \in Sessions, i \in FewInputs : Create(s, i, "A", "a@x.com")
    \/ \E s \in Sessions, i \in FewInputs : SetSlug(s, i)
    \/ \E s \in Sessions : CommitInsert(s)
    \/ \E s \in Sessions : CommitUpdate(s)
    \/ \E s \in Sessions, id \in 1..MaxPodcasts : Load(s, id)
    \/ \E s \in Sessions : Discard(s)

SpecPodcast == Init /\ [][NextPodcast]_vars

\* one session writing the author and explicit attributes, at a time when the
\* clock has reached its last value
InitAttrs ==
    /\ podcasts = <<>>
    /\ clock = MaxClock
    /\ session = [s \in Sessions |-> <<>>]
    /\ err = "none"
    /\ media = <<>>
    /\ stale = [s \in Sessions |-> FALSE]
    /\ lastInput = <<>>

NextAttrs ==
    \/ \E i \in FewInputs, n \in Names, e \in Emails : Create("s1", i, n, e)
    \/ \E n \in Names, e \in Emails : SetAuthor("s1", n, e)
    \/ \E v \in PyBool : SetExplicit("s1", v)
    \/ CommitInsert("s1")
    \/ CommitUpdate("s1")
    \/ \E id \in 1..MaxPodcasts : Load("s1", id)
    \/ Discard("s1")

SpecAttrs == InitAttrs /\ [][NextAttrs]_vars

\* one session reading the counters of committed Podcasts while media rows change
SeedRow(slug) ==
    [slug |-> slug, created_on |-> 0, modified_on |-> 0,
     author_name |-> "A", author_email |-> "a@x.com", explicit |-> "NULL"]

InitCount ==
    /\ podcasts = <<SeedRow(<<"b">>), SeedRow(<<"b", "-", "b">>)>>
    /\ clock = 0
    /\ session = [s \in Sessions |-> <<>>]
    /\ err = "none"
    /\ media = <<>>
    /\ stale = [s \in Sessions |-> FALSE]
    /\ lastInput = <<>>

NextCount ==
    \/ \E id \in DOMAIN podcasts : Load("s1", id)
    \/ Discard("s1")
    \/ AccessMediaCount("s1")
    \/ AccessPublishedMediaCount("s1")
    \/ \E pid \in PodcastRefs, st \in Statuses : InsertMedia(pid, st)
    \/ \E m \in 1..MaxMedia : DeleteMedia(m)
    \/ \E m \in 1..MaxMedia, st \in Statuses : SetMediaStatus(m, st)
    \/ \E m \in 1..MaxMedia, pid \in PodcastRefs : SetMediaPodcast(m, pid)

SpecCount == InitCount /\ [][NextCount]_vars

----------------------------------------------------------------------------
(* Properties *)

TrashBitClear(st) == (st \div TRASH) % 2 = 0
PublishBitSet(st) == (st \div PUBLISH) % 2 = 1

RowsOf(id) == {m \in DOMAIN media : media[m].podcast_id = id}

\* a step in which session s computes media_count
ComputesMediaCount(s) ==
    /\ Has(s)
    /\ session'[s] # <<>>
    /\ Obj(s).media_count = <<>>
    /\ session'[s][1].media_count # <<>>

\* a step in which session s computes published_media_count
ComputesPublishedMediaCount(s) ==
    /\ Has(s)
    /\ session'[s] # <<>>
    /\ Obj(s).published_media_count = <<>>
    /\ session'[s][1].published_media_count # <<>>

\* C1: whenever media_count of a Podcast is computed, it equals the number of
\* media rows whose podcast_id is the Podcast's id and whose trash bit is clear;
\* rows of other podcasts, of no podcast, or with the trash bit set do not
\* count, and a Podcast without media rows gets 0.
C1_MediaCount ==
    [][\A s \in Sessions :
         ComputesMediaCount(s) =>
           LET n == session'[s][1].media_count[1]
               id == Obj(s).id
           IN  /\ n = Cardinality({m \in RowsOf(id) : TrashBitClear(media[m].status)})
               /\ (RowsOf(id) = {} => n = 0)]_vars

C1_Witness ==
    /\ Has("s1")
    /\ ~stale["s1"]
    /\ Obj("s1").media_count = <<0>>
    /\ \E m \in RowsOf(Obj("s1").id) : media[m].status = TRASH + DRAFT
    /\ \E m \in DOMAIN media : media[m].podcast_id # Obj("s1").id /\ media[m].status = 0

\* C2: whenever published_media_count of a Podcast is computed, it equals the
\* number of media rows of that Podcast with the publish bit set and the trash
\* bit clear; a publish+trash row is in neither counter, a publish+draft row is
\* in both.
C2_PublishedMediaCount ==
    [][\A s \in Sessions :
         ComputesPublishedMediaCount(s) =>
           LET n == session'[s][1].published_media_count[1]
               id == Obj(s).id
           IN  /\ n = Cardinality({m \in RowsOf(id) :
                                     /\ PublishBitSet(media[m].status)
                                     /\ TrashBitClear(media[m].status)})
               /\ (RowsOf(id) = {} => n = 0)]_vars

C2_Witness ==
    /\ Has("s1")
    /\ ~stale["s1"]
    /\ Obj("s1").published_media_count = <<1>>
    /\ Obj("s1").media_count = <<1>>
    /\ \E m \in RowsOf(Obj("s1").id) : media[m].status = PUBLISH + TRASH
    /\ \E m \in RowsOf(Obj("s1").id) : media[m].status = PUBLISH + DRAFT

BothCounted(s) ==
    Has(s) /\ Obj(s).media_count # <<>> /\ Obj(s).published_media_count # <<>>

\* C3 as stated: in every reachable state the two counters an instance exposes
\* satisfy media_count >= published_media_count >= 0.
C3_Original ==
    \A s \in Sessions :
      BothCounted(s) =>
        /\ Obj(s).media_count[1] >= Obj(s).published_media_count[1]
        /\ Obj(s).published_media_count[1] >= 0

\* C3 amended: every counter an instance exposes is >= 0, and when no media row
\* was written since the first of the instance's counters was computed, the two
\* satisfy media_count >= published_media_count.
C3_Amended ==
    \A s \in Sessions :
      /\ Has(s) /\ Obj(s).media_count # <<>> => Obj(s).media_count[1] >= 0
      /\ Has(s) /\ Obj(s).published_media_count # <<>> =>
           Obj(s).published_media_count[1] >= 0
      /\ BothCounted(s) /\ ~stale[s] =>
           Obj(s).media_count[1] >= Obj(s).published_media_count[1]

C3_Witness ==
    /\ BothCounted("s1")
    /\ ~stale["s1"]
    /\ Obj("s1").media_count = <<2>>
    /\ Obj("s1").published_media_count = <<1>>

\* C10: a counter is not computed when the Podcast is loaded; once computed on
\* an instance it keeps its value on that instance, whatever happens to the
\* media rows afterwards.
C10_Deferred ==
    [][\A s \in Sessions :
         /\ (~Has(s) /\ session'[s] # <<>>) =>
              /\ session'[s][1].media_count = <<>>
              /\ session'[s][1].published_media_count = <<>>
         /\ (Has(s) /\ session'[s] # <<>> /\ Obj(s).media_count # <<>>) =>
              session'[s][1].media_count = Obj(s).media_count
         /\ (Has(s) /\ session'[s] # <<>> /\ Obj(s).published_media_count # <<>>) =>
              session'[s][1].published_media_count = Obj(s).published_media_count]_vars

C10_Witness ==
    /\ BothCounted("s1")
    /\ stale["s1"]
    /\ Obj("s1").media_count # <<media_count(Obj("s1").id)>>
    /\ Obj("s1").published_media_count # <<published_media_count(Obj("s1").id)>>

NoDuplicateSlug ==
    \A i, j \in DOMAIN podcasts : i # j => podcasts[i].slug # podcasts[j].slug

\* C4: no two committed rows ever hold the same slug; a commit that would
\* make two do so fails with the uniqueness error and leaves the table as it
\* was, and no slug assignment raises.
C4_SlugUnique ==
    /\ []NoDuplicateSlug
    /\ [][/\ err' = "IntegrityError" => podcasts' = podcasts
          /\ \A s \in Sessions :
               /\ (Has(s) /\ session'[s] # <<>> /\ session'[s][1].slug # Obj(s).slug) =>
                    err' = "none"
               /\ (Has(s) /\ Dirty(Obj(s)) /\ podcasts' = podcasts /\ clock' = clock
                   /\ session'[s] = <<>> /\ err' = "IntegrityError") =>
                    \E i \in DOMAIN podcasts :
                      i # Obj(s).id /\ podcasts[i].slug = Obj(s).slug]_vars

C4_Witness ==
    /\ err = "IntegrityError"
    /\ lastInput = <<"B", " ", "b">>
    /\ \E i \in DOMAIN podcasts : podcasts[i].slug = <<"b", "-", "b">>
    /\ ~Has("s2")
    /\ Has("s1")

\* C6: every committed row has modified_on >= created_on.
C6_ModifiedAfterCreated ==
    \A i \in DOMAIN podcasts : podcasts[i].modified_on >= podcasts[i].created_on

C6_Witness ==
    /\ Len(podcasts) = 2
    /\ podcasts[1].modified_on > podcasts[1].created_on
    /\ podcasts[2].modified_on = podcasts[2].created_on
    /\ podcasts[2].created_on > podcasts[1].created_on

\* C7: across commits, a row's modified_on never decreases and is the time of
\* the last write committed to it; its created_on never changes.
C7_Timestamps ==
    [][\A i \in DOMAIN podcasts :
         /\ podcasts'[i].created_on = podcasts[i].created_on
         /\ podcasts'[i].modified_on >= podcasts[i].modified_on
         /\ podcasts'[i] # podcasts[i] => podcasts'[i].modified_on = clock']_vars

\* the first row was updated after the second was inserted
C7_Witness ==
    /\ Len(podcasts) = 2
    /\ podcasts[1].modified_on > podcasts[2].created_on
    /\ podcasts[1].created_on < podcasts[2].created_on

\* C5: the slug an assignment stores is the normalized input, the normalizer is
\* idempotent, so every instance's slug is a fixed point of it, and assigning
\* an instance its own slug leaves the slug as it was.
C5_SlugNormalized ==
    /\ [](\A s \in Sessions :
            Has(s) =>
              /\ Obj(s).slug = slugify(lastInput)
              /\ slugify(Obj(s).slug) = Obj(s).slug
              /\ slugify(slugify(lastInput)) = slugify(lastInput))
    /\ [][\A s \in Sessions :
            (Has(s) /\ session'[s] # <<>> /\ lastInput' = Obj(s).slug) =>
              session'[s][1].slug = Obj(s).slug]_vars

C5_Witness ==
    /\ Has("s1")
    /\ Len(lastInput) > SlugMaxLen
    /\ Obj("s1").slug # lastInput
    /\ Obj("s1").slug[SlugMaxLen] = "-"

Clean(s) == Has(s) /\ Obj(s).id # 0 /\ ~Dirty(Obj(s))

\* C8: explicit read back from the committed row is what the instance holds:
\* None when it was never set, True after True, False after False; the stored
\* values of the three are pairwise different.
C8_ExplicitTriState ==
    /\ \A s \in Sessions :
         Clean(s) => BoolFromDb(podcasts[Obj(s).id].explicit) = Obj(s).explicit
    /\ \A i \in DOMAIN podcasts : podcasts[i].explicit \in {"NULL", "0", "1"}
    /\ \A v, w \in PyBool : v # w => BoolToDb(v) # BoolToDb(w)

C8_Witness ==
    /\ Len(podcasts) = 2
    /\ podcasts[1].explicit = "NULL"
    /\ podcasts[2].explicit = "0"
    /\ Clean("s1")
    /\ Obj("s1").id = 2
    /\ Obj("s1").explicit = "False"

\* C9: the author read back from the committed row equals the author the
\* instance holds and the two columns hold its name and email; two rows expose
\* equal authors exactly when both columns agree.
C9_AuthorRoundTrip ==
    /\ \A s \in Sessions :
         Clean(s) =>
           LET row == podcasts[Obj(s).id]
           IN  /\ row.author_name = Obj(s).author.name
               /\ row.author_email = Obj(s).author.email
               /\ AuthorEq(AuthorOfRow(row), Obj(s).author)
    /\ \A i, j \in DOMAIN podcasts :
         AuthorEq(AuthorOfRow(podcasts[i]), AuthorOfRow(podcasts[j]))
           <=> /\ podcasts[i].author_name = podcasts[j].author_name
               /\ podcasts[i].author_email = podcasts[j].author_email

C9_Witness ==
    /\ Len(podcasts) = 2
    /\ Clean("s1")
    /\ Obj("s1").id = 1
    /\ Obj("s1").author = Author("B", "b@x.com")
    /\ AuthorEq(AuthorOfRow(podcasts[1]), AuthorOfRow(podcasts[2]))

====
